---- MODULE Spec2Model ----
(***************************************************************************)
(* Model of bridge/src/main_to_side_sign.rs: the future MainToSideSign     *)
(* that relays one HomeBridge.Deposit log from `main` to `side`, the       *)
(* factory LogToMainToSideSign, and the collaborators the file calls into  *)
(* (the side contract facade, the side chain, the stream driver).          *)
(***************************************************************************)
EXTENDS Integers, Sequences, FiniteSets, TLC

\* ------------------------------------------------------------------ bounds

\* how many times the driver may invoke the factory for one event
MaxPasses == 2

\* the timeout handed to ContractConnection::new, in seconds
TimeoutDur == 1

\* elapsed time is tracked up to one second past the timeout
MaxElapsed == TimeoutDur + 1

\* ------------------------------------------------------------------ values

Events == {1, 2}

\* Log.transaction_hash is an Option<H256>: NoHash is None
NoHash == 0
TxHashes == {1, 2}

AuthorityAddress == "0x01"
ContractAddress == "0xdd1"

NoTask == [tag |-> "NoTask"]
Panic == [tag |-> "Panic"]
NoFuture == [op |-> "none"]
NoReceipt == [transaction_hash |-> NoHash]

\* the hash the side chain gives to the transaction submitted by pass p of event e
SideTxHash(e, p) == 10 * e + p

\* the Deposit logs of the stream: the fields of event e, whose log may be
\* unmined (no transaction_hash) and may repeat an earlier transaction
RecipientOf(e) == IF e = 1 THEN "aff3" ELSE "b0b0"
ValueOf(e) == IF e = 1 THEN 1000 ELSE 240
Recipients == {RecipientOf(e) : e \in Events}
Values == {ValueOf(e) : e \in Events}
LogsOf(e) ==
    {[transaction_hash |-> h, recipient |-> RecipientOf(e), value |-> ValueOf(e)] :
        h \in {NoHash} \cup {x \in TxHashes : x <= e}}

VARIABLES
    logs,       \* the event stream: logs[e] is the e-th Log
    side,       \* LogToMainToSideSign.side
    tasks,      \* tasks[e]: the MainToSideSign made for event e, or NoTask
    lastPoll,   \* lastPoll[e]: what the last call of poll returned
    item,       \* item[e]: the Item of Async::Ready
    pass,       \* pass[e]: how many times log_to_future ran for event e
    requests,   \* requests[e]: the requests the current task sent to the transport
    relayed,    \* side chain: the main transaction hashes signed by the authority
    effects,    \* side chain: effects[h] counts the submissions for h that took effect
    created,    \* the events in the order their tasks were first created
    panicked,   \* an `expect` failed
    relayedAtNew, \* relayedAtNew[e]: the chain had the hash of e signed when its task was made
    reported    \* reported[e]: the permanent failure the driver reported for event e

vars == <<logs, side, tasks, lastPoll, item, pass, requests, relayed, effects, created, panicked, relayedAtNew, reported>>

\* ------------------------------------------------------------------ futures

\* a call in flight: what was asked, whether it has resolved, with what, and
\* for how long it has been waited for; `timed` says it is inside a Timeout
Call(op, args, timed, novalue) ==
    [op |-> op, args |-> args, status |-> "pending", value |-> novalue,
     timed |-> timed, elapsed |-> 0]

\* SideContract::is_main_to_side_signed_on_side, wrapped in the timeout
is_main_to_side_signed_on_side(s, main_tx_hash, authority) ==
    Call("check", [main_tx_hash |-> main_tx_hash, authority |-> authority], TRUE, FALSE)

\* SideContract::sign_main_to_side, wrapped in the timeout
sign_main_to_side(s, recipient, value, main_tx_hash) ==
    Call("send", [recipient |-> recipient, value |-> value, main_tx_hash |-> main_tx_hash],
         TRUE, NoHash)

\* web3::api::Eth::transaction_receipt: a bare CallResult
transaction_receipt(side_tx_hash) ==
    Call("receipt", [side_tx_hash |-> side_tx_hash], FALSE, NoReceipt)

\* Future::poll of an awaited call: Timeout polls the inner future first and
\* the timer second
PollFuture(f) ==
    IF f.status = "ok" THEN [r |-> "Ready", v |-> f.value]
    ELSE IF f.status = "err" THEN [r |-> "Err", v |-> "transport"]
    ELSE IF f.timed /\ f.elapsed >= TimeoutDur THEN [r |-> "Err", v |-> "timeout"]
    ELSE [r |-> "NotReady", v |-> "none"]

\* the request the transport sees for a call
Request(f) == [op |-> f.op, args |-> f.args, status |-> f.status, value |-> f.value]

\* ------------------------------------------------------------------ payload

\* HomeBridge Deposit parse_log: the fields of the log's data
parse_log(log) == [recipient |-> log.recipient, value |-> log.value]

\* deposit_relay_payload, for a mined Deposit log: it takes the transaction
\* hash and parses the log, and its body ends there: no byte of a payload
\* is built from them
deposit_relay_payload(log) ==
    LET tx_hash == log.transaction_hash
        ethabi_log == parse_log(log)
    IN  <<>>

\* ------------------------------------------------------------------ MainToSideSign

new_SkipsCheck(log, s) ==
    [main_tx_hash |-> log.transaction_hash,
     side |-> s,
     state |-> [tag |-> "AwaitTxSent",
                future |-> sign_main_to_side(s, log.recipient, log.value,
                                             log.transaction_hash)]]

new_NoExpect(log, s) ==
    [main_tx_hash |-> log.transaction_hash,
     side |-> s,
     state |-> [tag |-> "AwaitHasSigned",
                future |-> is_main_to_side_signed_on_side(
                               s, log.transaction_hash, s.authority_address)]]

\* MainToSideSign::new: `expect` panics on a log without transaction_hash,
\* before the check is started
new(log, s) ==
    IF log.transaction_hash = NoHash THEN Panic
    ELSE [main_tx_hash |-> log.transaction_hash,
          side |-> s,
          state |-> [tag |-> "AwaitHasSigned",
                     future |-> is_main_to_side_signed_on_side(
                                    s, log.transaction_hash, s.authority_address)]]

\* what an arm of the match in poll gives: the value of the match (the next
\* state) or a return out of poll
NextState(state) == [kind |-> "next", state |-> state]
Return(result, i) == [kind |-> "return", result |-> result, item |-> i]

ArmAwaitHasSigned_Resubmits(t, p, recipient, value) ==
    IF p.r # "Ready" THEN Return(p.r, NoReceipt)
    ELSE NextState([tag |-> "AwaitTxSent",
                    future |-> sign_main_to_side(t.side, recipient, value, t.main_tx_hash)])

ArmAwaitHasSigned_SwallowsError(t, p, recipient, value) ==
    IF p.r = "NotReady" THEN Return(p.r, NoReceipt)
    ELSE IF p.r = "Ready" /\ p.v
         THEN NextState([tag |-> "HasAlreadySigned", future |-> NoFuture])
         ELSE NextState([tag |-> "AwaitTxSent",
                         future |-> sign_main_to_side(t.side, recipient, value,
                                                      t.main_tx_hash)])

ArmAwaitHasSigned_NoWait(t, p, recipient, value) ==
    IF p.r = "Err" THEN Return(p.r, NoReceipt)
    ELSE IF p.r = "Ready" /\ p.v
         THEN NextState([tag |-> "HasAlreadySigned", future |-> NoFuture])
         ELSE NextState([tag |-> "AwaitTxSent",
                         future |-> sign_main_to_side(t.side, recipient, value,
                                                      t.main_tx_hash)])

\* the arm State::AwaitHasAlreadySigned: p is what polling the future gave,
\* recipient and value are what the reads of self.recipient and self.value give
ArmAwaitHasSigned(t, p, recipient, value) ==
    IF p.r # "Ready" THEN Return(p.r, NoReceipt)
    ELSE IF p.v
         THEN NextState([tag |-> "HasAlreadySigned", future |-> NoFuture])
         ELSE NextState([tag |-> "AwaitTxSent",
                         future |-> sign_main_to_side(t.side, recipient, value,
                                                      t.main_tx_hash)])

ArmAwaitTxSent_WrongHash(t, p) ==
    IF p.r # "Ready" THEN Return(p.r, NoReceipt)
    ELSE NextState([tag |-> "AwaitTxReceipt", future |-> transaction_receipt(t.main_tx_hash)])

ArmAwaitTxSent_BackToCheck(t, p) ==
    IF p.r # "Ready" THEN Return(p.r, NoReceipt)
    ELSE NextState([tag |-> "AwaitHasSigned",
                    future |-> is_main_to_side_signed_on_side(
                                   t.side, t.main_tx_hash, t.side.authority_address)])

\* the arm State::AwaitTxSent
ArmAwaitTxSent(t, p) ==
    IF p.r # "Ready" THEN Return(p.r, NoReceipt)
    ELSE NextState([tag |-> "AwaitTxReceipt", future |-> transaction_receipt(p.v)])

ArmAwaitTxReceipt_NeverReady(t, p) ==
    IF p.r = "Err" THEN Return(p.r, NoReceipt)
    ELSE Return("NotReady", NoReceipt)

\* the arm State::AwaitTxReceipt
ArmAwaitTxReceipt(t, p) ==
    IF p.r # "Ready" THEN Return(p.r, NoReceipt)
    ELSE Return("Ready", p.v)

\* one iteration of the loop of poll: the match on self.state, which has no
\* arm for State::HasAlreadySigned
Arm(t, recipient, value) ==
    CASE t.state.tag = "AwaitHasSigned" ->
            ArmAwaitHasSigned(t, PollFuture(t.state.future), recipient, value)
      [] t.state.tag = "AwaitTxSent" -> ArmAwaitTxSent(t, PollFuture(t.state.future))
      [] t.state.tag = "AwaitTxReceipt" -> ArmAwaitTxReceipt(t, PollFuture(t.state.future))
      [] OTHER -> [kind |-> "noarm"]

\* the loop of poll: runs arms until one returns; `issued` collects the calls
\* started on the way and `transitions` counts the assignments to self.state
RECURSIVE PollLoop(_, _, _, _, _)
PollLoop(t, recipient, value, issued, transitions) ==
    LET a == Arm(t, recipient, value) IN
    IF a.kind = "next"
    THEN PollLoop([t EXCEPT !.state = a.state], recipient, value,
                  IF a.state.future = NoFuture THEN issued
                  ELSE Append(issued, Request(a.state.future)),
                  transitions + 1)
    ELSE [task |-> t,
          result |-> IF a.kind = "noarm" THEN "NoArm" ELSE a.result,
          item |-> IF a.kind = "noarm" THEN NoReceipt ELSE a.item,
          issued |-> issued,
          transitions |-> transitions]

poll(t, recipient, value) == PollLoop(t, recipient, value, <<>>, 0)

\* ------------------------------------------------------------------ state

TypeOK ==
    /\ \A e \in Events : logs[e] \in LogsOf(e)
    /\ pass \in [Events -> 0..MaxPasses]
    /\ lastPoll \in [Events -> {"none", "NotReady", "Ready", "Err", "NoArm"}]
    /\ relayed \subseteq TxHashes
    /\ panicked \in BOOLEAN
    /\ reported \in [Events -> {"none", "RetryBudgetExhausted"}]

Init ==
    /\ logs \in [Events -> UNION {LogsOf(e) : e \in Events}]
    /\ \A e \in Events : logs[e] \in LogsOf(e)
    /\ side = [authority_address |-> AuthorityAddress,
               contract_address |-> ContractAddress,
               timeout |-> TimeoutDur]
    /\ tasks = [e \in Events |-> NoTask]
    /\ lastPoll = [e \in Events |-> "none"]
    /\ item = [e \in Events |-> NoReceipt]
    /\ pass = [e \in Events |-> 0]
    /\ requests = [e \in Events |-> <<>>]
    /\ relayed \in SUBSET TxHashes
    /\ effects = [h \in TxHashes |-> 0]
    /\ created = <<>>
    /\ panicked = FALSE
    /\ relayedAtNew = [e \in Events |-> FALSE]
    /\ reported = [e \in Events |-> "none"]

Live(e) == tasks[e] # NoTask /\ lastPoll[e] \in {"none", "NotReady", "NoArm"}

Waiting(e) ==
    /\ ~panicked
    /\ tasks[e] # NoTask
    /\ lastPoll[e] \in {"none", "NotReady"}
    /\ tasks[e].state.future # NoFuture
    /\ tasks[e].state.future.status \in {"pending", "landed"}

\* ------------------------------------------------------------------ actions

NextInStream_AnyOrder(e) == pass[e] = 0

\* the driver takes the events from the stream in order: e is the next one
NextInStream(e) == pass[e] = 0 /\ Len(created) = e - 1

\* LogToMainToSideSign::log_to_future for the next event of the stream
LogToFuture(e) ==
    /\ ~panicked
    /\ NextInStream(e)
    /\ IF new(logs[e], side) = Panic
       THEN /\ panicked' = TRUE
            /\ UNCHANGED <<tasks, requests, pass, created, relayedAtNew>>
       ELSE /\ tasks' = [tasks EXCEPT ![e] = new(logs[e], side)]
            /\ requests' = [requests EXCEPT ![e] = <<Request(new(logs[e], side).state.future)>>]
            /\ pass' = [pass EXCEPT ![e] = 1]
            /\ created' = Append(created, e)
            /\ relayedAtNew' = [relayedAtNew EXCEPT ![e] = logs[e].transaction_hash \in relayed]
            /\ UNCHANGED panicked
    /\ UNCHANGED <<logs, side, lastPoll, item, relayed, effects, reported>>

Restart_NoBudget(e) ==
    /\ ~panicked
    /\ tasks[e] # NoTask
    /\ lastPoll[e] = "Err"
    /\ tasks' = [tasks EXCEPT ![e] = new(logs[e], side)]
    /\ requests' = [requests EXCEPT ![e] = <<Request(new(logs[e], side).state.future)>>]
    /\ pass' = [pass EXCEPT ![e] = @ + 1]
    /\ lastPoll' = [lastPoll EXCEPT ![e] = "none"]
    /\ item' = [item EXCEPT ![e] = NoReceipt]
    /\ relayedAtNew' = [relayedAtNew EXCEPT ![e] = logs[e].transaction_hash \in relayed]
    /\ UNCHANGED <<logs, side, relayed, effects, created, panicked, reported>>

\* the driver runs the factory again for an event whose task reported an error
Restart(e) ==
    /\ ~panicked
    /\ tasks[e] # NoTask
    /\ lastPoll[e] = "Err"
    /\ pass[e] < MaxPasses
    /\ tasks' = [tasks EXCEPT ![e] = new(logs[e], side)]
    /\ requests' = [requests EXCEPT ![e] = <<Request(new(logs[e], side).state.future)>>]
    /\ pass' = [pass EXCEPT ![e] = @ + 1]
    /\ lastPoll' = [lastPoll EXCEPT ![e] = "none"]
    /\ item' = [item EXCEPT ![e] = NoReceipt]
    /\ relayedAtNew' = [relayedAtNew EXCEPT ![e] = logs[e].transaction_hash \in relayed]
    /\ UNCHANGED <<logs, side, relayed, effects, created, panicked, reported>>

\* the driver gives up an event whose tasks used up the retry budget and
\* reports the permanent failure
GiveUp(e) ==
    /\ ~panicked
    /\ tasks[e] # NoTask
    /\ lastPoll[e] = "Err"
    /\ pass[e] >= MaxPasses
    /\ reported[e] = "none"
    /\ reported' = [reported EXCEPT ![e] = "RetryBudgetExhausted"]
    /\ UNCHANGED <<logs, side, tasks, lastPoll, item, pass, requests, relayed, effects,
                   created, panicked, relayedAtNew>>

Poll_SharedState(e) ==
    /\ ~panicked
    /\ Live(e)
    /\ \E d \in Events :
          LET out == poll(tasks[e], RecipientOf(d), ValueOf(d)) IN
          /\ tasks' = [x \in Events |->
                          IF x = e THEN out.task
                          ELSE IF tasks[x] # NoTask /\ out.transitions > 0
                               THEN [tasks[x] EXCEPT !.state = out.task.state]
                               ELSE tasks[x]]
          /\ lastPoll' = [lastPoll EXCEPT ![e] = out.result]
          /\ item' = [item EXCEPT ![e] = out.item]
          /\ requests' = [requests EXCEPT ![e] = @ \o out.issued]
    /\ UNCHANGED <<logs, side, pass, relayed, effects, created, panicked, relayedAtNew, reported>>

\* MainToSideSign::poll. Nothing sets self.recipient and self.value, so
\* what poll reads there is open: any of the deposits of the stream
Poll(e) ==
    /\ ~panicked
    /\ Live(e)
    /\ \E d \in Events :
          LET out == poll(tasks[e], RecipientOf(d), ValueOf(d)) IN
          /\ tasks' = [tasks EXCEPT ![e] = out.task]
          /\ lastPoll' = [lastPoll EXCEPT ![e] = out.result]
          /\ item' = [item EXCEPT ![e] = out.item]
          /\ requests' = [requests EXCEPT ![e] = @ \o out.issued]
    /\ UNCHANGED <<logs, side, pass, relayed, effects, created, panicked, relayedAtNew, reported>>

\* the awaited call of task e resolves with `status` and `value`
Resolve(e, status, value) ==
    /\ tasks' = [tasks EXCEPT ![e].state.future.status = status,
                              ![e].state.future.value = value]
    /\ requests' = [requests EXCEPT ![e][Len(requests[e])].status = status,
                                    ![e][Len(requests[e])].value = value]

\* the side chain answers the already-signed query from its relay-status mapping
CheckResponds(e) ==
    /\ Waiting(e)
    /\ tasks[e].state.future.op = "check"
    /\ Resolve(e, "ok", tasks[e].state.future.args.main_tx_hash \in relayed)
    /\ UNCHANGED <<logs, side, lastPoll, item, pass, relayed, effects, created, panicked, relayedAtNew, reported>>

\* the submitted transaction takes effect on the side chain: the contract
\* records the main transaction hash, once
SendLands(e) ==
    /\ Waiting(e)
    /\ tasks[e].state.future.op = "send"
    /\ tasks[e].state.future.status = "pending"
    /\ LET h == tasks[e].state.future.args.main_tx_hash IN
       /\ relayed' = relayed \cup {h}
       /\ effects' = [effects EXCEPT ![h] = IF h \in relayed THEN @ ELSE @ + 1]
    /\ tasks' = [tasks EXCEPT ![e].state.future.status = "landed"]
    /\ UNCHANGED <<logs, side, lastPoll, item, pass, requests, created, panicked, relayedAtNew, reported>>

\* the node answers the submission with the hash of the side transaction
SendResponds(e) ==
    /\ Waiting(e)
    /\ tasks[e].state.future.op = "send"
    /\ tasks[e].state.future.status = "landed"
    /\ Resolve(e, "ok", SideTxHash(e, pass[e]))
    /\ UNCHANGED <<logs, side, lastPoll, item, pass, relayed, effects, created, panicked, relayedAtNew, reported>>

\* the node answers eth_getTransactionReceipt: null while the transaction is
\* not mined, its receipt once it is
ReceiptResponds(e) ==
    /\ Waiting(e)
    /\ tasks[e].state.future.op = "receipt"
    /\ \E r \in {NoReceipt, [transaction_hash |-> tasks[e].state.future.args.side_tx_hash]} :
          Resolve(e, "ok", r)
    /\ UNCHANGED <<logs, side, lastPoll, item, pass, relayed, effects, created, panicked, relayedAtNew, reported>>

\* the transport fails the awaited call
CallFails(e) ==
    /\ Waiting(e)
    /\ Resolve(e, "err", tasks[e].state.future.value)
    /\ UNCHANGED <<logs, side, lastPoll, item, pass, relayed, effects, created, panicked, relayedAtNew, reported>>

\* a timer that has run out is served before time moves on
TimerDue(e) ==
    /\ Waiting(e)
    /\ tasks[e].state.future.timed
    /\ tasks[e].state.future.elapsed >= TimeoutDur

\* one second passes for every call that is waited for
Tick ==
    /\ ~panicked
    /\ \E e \in Events : Waiting(e) /\ tasks[e].state.future.elapsed < MaxElapsed
    /\ \A e \in Events : ~TimerDue(e)
    /\ tasks' = [e \in Events |->
                    IF Waiting(e) /\ tasks[e].state.future.elapsed < MaxElapsed
                    THEN [tasks[e] EXCEPT !.state.future.elapsed = @ + 1]
                    ELSE tasks[e]]
    /\ UNCHANGED <<logs, side, lastPoll, item, pass, requests, relayed, effects, created, panicked, relayedAtNew, reported>>

Next ==
    \/ \E e \in Events : LogToFuture(e)
    \/ \E e \in Events : Restart(e)
    \/ \E e \in Events : GiveUp(e)
    \/ \E e \in Events : Poll(e)
    \/ \E e \in Events : CheckResponds(e)
    \/ \E e \in Events : SendLands(e)
    \/ \E e \in Events : SendResponds(e)
    \/ \E e \in Events : ReceiptResponds(e)
    \/ \E e \in Events : CallFails(e)
    \/ Tick

Spec == Init /\ [][Next]_vars

\* ------------------------------------------------------------------ properties

HasTask(e) == tasks[e] # NoTask
Tag(e) == tasks[e].state.tag
Ops(e) == [i \in 1..Len(requests[e]) |-> requests[e][i].op]
Sent(e) == \E i \in 1..Len(requests[e]) : requests[e][i].op = "send"
CheckSaid(e, b) ==
    /\ Len(requests[e]) >= 1
    /\ requests[e][1].op = "check"
    /\ requests[e][1].status = "ok"
    /\ requests[e][1].value = b

\* C1: when the already-signed check completes with true, the instance moves
\* to HasAlreadySigned and completes the task, and it sends neither a
\* sign-and-submit nor a receipt request.
C1_AlreadySignedCompletes ==
    \A e \in Events :
        (HasTask(e) /\ CheckSaid(e, TRUE)) =>
            /\ Ops(e) = <<"check">>
            /\ Tag(e) \in {"AwaitHasSigned", "HasAlreadySigned"}
            /\ Tag(e) = "HasAlreadySigned" => lastPoll[e] = "Ready"

\* C2: when the check completes with false the instance moves to AwaitTxSent
\* and calls sign-and-submit exactly once, with the recipient and value of the
\* event's log and the log's transaction hash; no sign-and-submit is made
\* before the check completed with false.
C2_SubmitsDecodedPayloadOnce ==
    \A e \in Events :
        HasTask(e) =>
            /\ \A i \in 1..Len(requests[e]) :
                  requests[e][i].op = "send" =>
                      /\ i = 2
                      /\ CheckSaid(e, FALSE)
                      /\ requests[e][i].args =
                            [recipient |-> logs[e].recipient,
                             value |-> logs[e].value,
                             main_tx_hash |-> logs[e].transaction_hash]
            /\ Tag(e) = "AwaitTxSent" => Ops(e) = <<"check", "send">>

\* C3: a pass for a transaction hash that the side chain already records as
\* signed (a submission took effect, or another path relayed it) sees the
\* check answer true, ends in HasAlreadySigned and never calls
\* sign-and-submit; at most one submission per hash takes effect.
C3_SecondPassIsIdempotent ==
    /\ \A h \in TxHashes : effects[h] <= 1
    /\ \A e \in Events :
          (HasTask(e) /\ relayedAtNew[e]) =>
              /\ ~Sent(e)
              /\ Ops(e) = <<"check">>
              /\ requests[e][1].status = "ok" => requests[e][1].value = TRUE
              /\ Tag(e) \in {"AwaitHasSigned", "HasAlreadySigned"}
              /\ (lastPoll[e] = "NoArm" \/ lastPoll[e] = "Ready") => Tag(e) = "HasAlreadySigned"
              /\ (requests[e][1].status = "ok" /\ lastPoll[e] # "none"
                    /\ Tag(e) = "AwaitHasSigned") => lastPoll[e] = "NotReady"

\* C3 witness: the first pass submitted and its submission took effect, the
\* second pass found the hash signed and stopped in HasAlreadySigned
C3_Witness ==
    \E e \in Events :
        /\ HasTask(e)
        /\ pass[e] = 2
        /\ relayedAtNew[e]
        /\ effects[tasks[e].main_tx_hash] = 1
        /\ Tag(e) = "HasAlreadySigned"

C5_DoneCarriesMinedReceipt ==
    \A e \in Events :
        (HasTask(e) /\ lastPoll[e] = "Ready") =>
            /\ item[e] # NoReceipt
            /\ item[e] = requests[e][3].value

\* C6: fresh deposit: when the future resolves, the requests it made are, in
\* order, the check, one sign-and-submit built from the log's recipient, value
\* and transaction hash, and the receipt request; the Item is the receipt of
\* the hash the submission returned.
C6_FreshDepositRequests ==
    \A e \in Events :
        (HasTask(e) /\ lastPoll[e] = "Ready") =>
            /\ Ops(e) = <<"check", "send", "receipt">>
            /\ requests[e][1].args =
                  [main_tx_hash |-> logs[e].transaction_hash,
                   authority |-> side.authority_address]
            /\ requests[e][1].value = FALSE
            /\ requests[e][2].args =
                  [recipient |-> logs[e].recipient,
                   value |-> logs[e].value,
                   main_tx_hash |-> logs[e].transaction_hash]
            /\ requests[e][3].args = [side_tx_hash |-> requests[e][2].value]
            /\ item[e].transaction_hash = requests[e][2].value

\* something can still happen to the task of event e
CanProgress(e) ==
    \/ ENABLED <<Poll(e)>>_vars
    \/ ENABLED <<CheckResponds(e)>>_vars
    \/ ENABLED <<SendLands(e)>>_vars
    \/ ENABLED <<SendResponds(e)>>_vars
    \/ ENABLED <<ReceiptResponds(e)>>_vars
    \/ ENABLED <<CallFails(e)>>_vars

\* C7: a relay of a well-formed event never ends without an outcome: as long
\* as the task has reported neither success (Ready) nor an error it can
\* still progress.
C7_NeverDropped ==
    (\A x \in Events : logs[x].transaction_hash # NoHash) =>
        \A e \in Events :
            HasTask(e) => (lastPoll[e] \in {"Ready", "Err"} \/ CanProgress(e))

\* polling the awaited call of task e gives an error
Failed(e) == HasTask(e) /\ Tag(e) # "HasAlreadySigned" /\ PollFuture(tasks[e].state.future).r = "Err"

\* C8: when the call awaited in AwaitHasSigned, AwaitTxSent or AwaitTxReceipt
\* has failed or timed out, the only thing the instance does is to report
\* the error: it stays in its state and sends no request, and after the
\* error it never moves or sends again; a failed check is never followed by
\* a sign-and-submit.
C8_ErrorStopsInstance ==
    [][\A e \in Events :
          (HasTask(e) /\ pass'[e] = pass[e]) =>
              /\ Failed(e) =>
                    /\ tasks'[e].state.tag = tasks[e].state.tag
                    /\ Len(requests'[e]) = Len(requests[e])
                    /\ lastPoll'[e] \in {lastPoll[e], "Err"}
              /\ (Failed(e) /\ lastPoll[e] = "none" /\ tasks'[e] = tasks[e]) =>
                    lastPoll'[e] \in {"none", "Err"}
              /\ lastPoll[e] = "Err" =>
                    /\ Failed(e)
                    /\ lastPoll'[e] = "Err"
                    /\ tasks'[e] = tasks[e]
                    /\ requests'[e] = requests[e]
              /\ (lastPoll[e] = "Err" /\ Tag(e) = "AwaitHasSigned") => ~Sent(e)]_vars

\* C8 witness: one task reported the transport error of its check, another
\* the timeout of its submission
C8_Witness ==
    \E e1, e2 \in Events :
        /\ HasTask(e1) /\ HasTask(e2)
        /\ lastPoll[e1] = "Err" /\ Tag(e1) = "AwaitHasSigned"
        /\ tasks[e1].state.future.status = "err"
        /\ lastPoll[e2] = "Err" /\ Tag(e2) = "AwaitTxSent"
        /\ tasks[e2].state.future.status # "err"

\* C9: after an error of its task the driver runs the factory again for the
\* same event; the fresh instance starts in AwaitHasSigned with a new check
\* for the log's transaction hash, every sign-and-submit of an instance comes
\* after its own check answered false, and the error leaves the driver running.
C9_RestartChecksAgain ==
    [][\A e \in Events :
          /\ (pass[e] >= 1 /\ pass'[e] # pass[e]) =>
                /\ lastPoll[e] = "Err"
                /\ pass'[e] = pass[e] + 1
                /\ tasks'[e].main_tx_hash = logs[e].transaction_hash
                /\ tasks'[e].state.tag = "AwaitHasSigned"
                /\ tasks'[e].state.future.op = "check"
                /\ tasks'[e].state.future.status = "pending"
                /\ lastPoll'[e] = "none"
          /\ tasks'[e] # NoTask =>
                \A i \in 1..Len(requests'[e]) :
                    requests'[e][i].op = "send" =>
                        /\ i = 2
                        /\ requests'[e][1].op = "check"
                        /\ requests'[e][1].args.main_tx_hash = logs[e].transaction_hash
                        /\ requests'[e][1].status = "ok"
                        /\ requests'[e][1].value = FALSE
          /\ (lastPoll'[e] = "Err" /\ lastPoll[e] # "Err") => ~panicked']_vars

\* C9 witness: the second instance made for an event has sent a
\* sign-and-submit
C9_Witness ==
    \E e \in Events : HasTask(e) /\ pass[e] = 2 /\ Sent(e)

\* C10: a task never waits for a call for longer than the configured
\* timeout: a call that does not resolve ends in an error by then.
C10_NoWaitPastTimeout ==
    \A e \in Events :
        Waiting(e) => tasks[e].state.future.elapsed <= TimeoutDur


\* C11: the timeout of AwaitTxReceipt runs from the entry into the state and
\* polls do not reset it: while the receipt is not mined the instance neither
\* completes nor waits for longer than the configured timeout.
C11_ReceiptTimeoutFromEntry ==
    \A e \in Events :
        (HasTask(e) /\ Tag(e) = "AwaitTxReceipt") =>
            /\ lastPoll[e] \in {"none", "NotReady"} =>
                  tasks[e].state.future.elapsed <= TimeoutDur
            /\ (tasks[e].state.future.status = "ok"
                  /\ tasks[e].state.future.value = NoReceipt) => lastPoll[e] # "Ready"


\* ------------------------------------------------------------------ fairness

\* a step of the relay of event e: the driver makes, polls, restarts or
\* gives up its task, or the side chain answers the call the task awaits
TaskStep(e) ==
    \/ LogToFuture(e)
    \/ Restart(e)
    \/ GiveUp(e)
    \/ Poll(e)
    \/ CheckResponds(e)
    \/ SendLands(e)
    \/ SendResponds(e)
    \/ ReceiptResponds(e)

\* the driver serves every event and the side chain every call: no relay
\* that can take a step is left without one forever
Fairness == \A e \in Events : WF_vars(TaskStep(e))

\* a stream of distinct mined deposits, none of them relayed yet
FairInit ==
    /\ Init
    /\ \A x \in Events : logs[x].transaction_hash = x
    /\ relayed = {}

FairSpec == FairInit /\ [][Next]_vars /\ Fairness

\* C12: whatever the other tasks do, also when all their calls fail, a task
\* eventually reaches Done (poll returns Ready) unless one of its own calls
\* fails or its own check finds the transaction already signed.
C12_SiblingReachesDone ==
    \A e \in Events :
        <>(HasTask(e) /\ (lastPoll[e] \in {"Ready", "Err"} \/ Tag(e) = "HasAlreadySigned"))

\* C12 witness: every pass of one event failed until the driver gave it up,
\* and the task of the other event reached Done
C12_Witness ==
    \E e1, e2 \in Events :
        /\ e1 # e2
        /\ reported[e1] = "RetryBudgetExhausted"
        /\ HasTask(e2) /\ lastPoll[e2] = "Ready"


\* C13: tasks are created in the order of the stream: when the task of an
\* event exists, the tasks of all earlier events were created before it;
\* nothing orders the completions.
C13_CreatedInStreamOrder ==
    /\ \A i, j \in 1..Len(created) : i < j => created[i] < created[j]
    /\ \A e \in Events :
          HasTask(e) =>
              \E j \in 1..Len(created) :
                  /\ created[j] = e
                  /\ \A d \in Events : d < e => \E i \in 1..(j - 1) : created[i] = d

\* C13 witness: the task of the later event is Done while the task of the
\* earlier event, created first, still waits
C13_Witness ==
    /\ created = <<1, 2>>
    /\ lastPoll[2] = "Ready"
    /\ lastPoll[1] \in {"none", "NotReady"}


\* C14: the factory runs at most MaxPasses times for one event; when the
\* last of these tasks failed the driver reports RetryBudgetExhausted for
\* that event, and it goes on taking the next events of the stream.
C14_RetryBudget ==
    \A e \in Events :
        /\ pass[e] <= MaxPasses
        /\ reported[e] = "RetryBudgetExhausted" =>
              /\ HasTask(e)
              /\ lastPoll[e] = "Err"
              /\ pass[e] = MaxPasses
              /\ ~ENABLED Restart(e)
        /\ (HasTask(e) /\ lastPoll[e] = "Err" /\ pass[e] = MaxPasses /\ ~panicked
              /\ reported[e] = "none") => ENABLED GiveUp(e)
        /\ \A d \in Events :
              (reported[e] = "RetryBudgetExhausted" /\ ~panicked /\ NextInStream(d)) =>
                  ENABLED LogToFuture(d)

\* C14 witness: the first event was given up after MaxPasses failed tasks and
\* the task of the second event, made once, is Done
C14_Witness ==
    /\ reported[1] = "RetryBudgetExhausted"
    /\ pass[1] = MaxPasses
    /\ pass[2] = 1
    /\ lastPoll[2] = "Ready"
    /\ reported[2] = "none"


\* the method selector of ForeignBridge.deposit
DepositSelector == <<"26", "b3", "29", "3f">>

\* a 32-byte word of the ABI encoding: an address is left-padded with 12
\* zero bytes, an unsigned integer is big-endian, a hash fills the word
Word(kind, x) == [word |-> kind, pad |-> IF kind = "address" THEN 12 ELSE 0, of |-> x]

\* the payload of ForeignBridge.deposit(recipient, value, transaction_hash)
ExpectedPayload(log) ==
    DepositSelector \o <<Word("address", log.recipient),
                         Word("uint256", log.value),
                         Word("bytes32", log.transaction_hash)>>

\* C15: for every mined Deposit log deposit_relay_payload returns the
\* selector 26b3293f followed by the encoded recipient, the encoded value and
\* the transaction hash of the log.
C15_PayloadLayout ==
    \A e \in Events :
        logs[e].transaction_hash # NoHash =>
            deposit_relay_payload(logs[e]) = ExpectedPayload(logs[e])


\* C16: for a log without transaction hash no MainToSideSign exists in any
\* state and no check, submission or receipt request is ever sent for it.
C16_NoTaskWithoutHash ==
    \A e \in Events :
        logs[e].transaction_hash = NoHash =>
            /\ tasks[e] = NoTask
            /\ requests[e] = <<>>
            /\ pass[e] = 0
            /\ lastPoll[e] = "none"

\* C16 witness: the factory was called for a log without transaction hash
\* and the `expect` in new refused it
C16_Witness ==
    \E e \in Events :
        /\ logs[e].transaction_hash = NoHash
        /\ Len(created) = e - 1
        /\ panicked


\* the transitions of State inside one instance
Transitions ==
    {<<"AwaitHasSigned", "HasAlreadySigned">>,
     <<"AwaitHasSigned", "AwaitTxSent">>,
     <<"AwaitTxSent", "AwaitTxReceipt">>}

Cursor(t) ==
    IF t = NoTask THEN NoTask
    ELSE [tag |-> t.state.tag, main_tx_hash |-> t.main_tx_hash]

\* a step made by task e: it is created, restarted or polled
StepOf(e) ==
    \/ pass'[e] # pass[e]
    \/ lastPoll'[e] # lastPoll[e]
    \/ Len(requests'[e]) # Len(requests[e])
    \/ Cursor(tasks'[e]) # Cursor(tasks[e])

\* C18: a step of one task leaves the state and the source transaction
\* identifier (and the requests and the outcome) of every other task as they
\* were; every task holds its own copy of the side contract configuration,
\* and the configuration held by the factory never changes.
C18_TasksAreIsolated ==
    [][/\ side' = side
       /\ \A e \in Events : tasks'[e] # NoTask => tasks'[e].side = side
       /\ \A e1, e2 \in Events :
             (e1 # e2 /\ StepOf(e1)) =>
                 /\ Cursor(tasks'[e2]) = Cursor(tasks[e2])
                 /\ requests'[e2] = requests[e2]
                 /\ lastPoll'[e2] = lastPoll[e2]]_vars

\* C18 witness: two tasks exist side by side, for different deposits and in
\* different states
C18_Witness ==
    /\ \A e \in Events : HasTask(e)
    /\ Tag(1) = "AwaitTxReceipt"
    /\ Tag(2) = "AwaitHasSigned"
    /\ tasks[1].main_tx_hash # tasks[2].main_tx_hash
    /\ tasks[1].side = side /\ tasks[2].side = side


\* the call awaited in the current state of task e has not completed
AwaitedPending(e) ==
    /\ HasTask(e)
    /\ tasks[e].state.future # NoFuture
    /\ PollFuture(tasks[e].state.future).r = "NotReady"

\* C19: while the awaited call has not completed, poll returns NotReady,
\* makes no transition and starts no call, so a step of the instance leaves
\* its state, its source transaction identifier and the number of requests
\* it has sent unchanged.
C19_PendingPollChangesNothing ==
    [][\A e \in Events :
          (AwaitedPending(e) /\ pass'[e] = pass[e]) =>
              /\ \A d \in Events :
                    LET out == poll(tasks[e], RecipientOf(d), ValueOf(d)) IN
                    /\ out.result = "NotReady"
                    /\ out.task = tasks[e]
                    /\ out.issued = <<>>
              /\ Cursor(tasks'[e]) = Cursor(tasks[e])
              /\ Len(requests'[e]) = Len(requests[e])
              /\ lastPoll'[e] \in {lastPoll[e], "NotReady"}]_vars

\* C19 witness: an instance was polled while its check was pending: it is
\* still waiting for the check and has sent the one request
C19_Witness ==
    \E e \in Events :
        /\ AwaitedPending(e)
        /\ lastPoll[e] = "NotReady"
        /\ Tag(e) = "AwaitHasSigned"
        /\ Ops(e) = <<"check">>


\* the transitions the loop of poll can make in one call
MaxTransitions == Cardinality(Transitions)

\* C20: every call of poll returns NotReady, Ready or an error after at most
\* three state transitions, and an instance in the terminal state
\* HasAlreadySigned has a terminal result from poll.
C20_PollAlwaysReturns ==
    \A e \in Events :
        /\ HasTask(e) =>
              \A d \in Events :
                  LET out == poll(tasks[e], RecipientOf(d), ValueOf(d)) IN
                  /\ out.transitions <= MaxTransitions
                  /\ out.result \in {"NotReady", "Ready", "Err"}
        /\ (HasTask(e) /\ Tag(e) = "HasAlreadySigned") =>
              lastPoll[e] \in {"Ready", "Err"}

====
